---- MODULE Spec2Model ----
(***************************************************************************)
(* Model of flotils.webscraper.WebScraper: the file-backed response cache  *)
(* (_getCached, _updateCache, _putCached), the cached get() on top of it,  *)
(* and the shrinkList / shrinkDict normalisation of scrape results.        *)
(***************************************************************************)
EXTENDS Integers, Sequences, FiniteSets, TLC

\* ------------------------------------------------------------------------
\* Bounds of the model
\* ------------------------------------------------------------------------
MaxTime == 2
MaxCalls == 2
MaxCallsLong == 3
MaxGets == 3
CacheTime == 1
MaxList == 2
MaxPasses == 2

\* ------------------------------------------------------------------------
\* Values
\* ------------------------------------------------------------------------
None == "None"
NoTime == 0 - 1
NoFile == "NoFile"

Inst == {"A", "B"}
URLs == {"u1", "u2"}
Keys == {"k1", "k2"}
ETags == {"e1"}

\* variant: every url gets the same key
KeyCollide(url) == "k1"

\* hashlib.md5(url).hexdigest(): one key per URL, distinct URLs get
\* distinct keys
Key(url) == IF url = "u1" THEN "k1" ELSE "k2"

NoEntry == [accessTime |-> NoTime, ETag |-> None]
EmptyIndex == [ver |-> FALSE, ent |-> [k \in Keys |-> NoEntry]]
VersionIndex == [ver |-> TRUE, ent |-> [k \in Keys |-> NoEntry]]
NoneTriple == <<None, NoTime, None>>

\* truth value of a dict: empty dict is falsy
IsEmpty(ix) == ~ix.ver /\ \A k \in Keys : ix.ent[k] = NoEntry

\* dict.update(src) on dst
DictUpdate(dst, src) ==
    [ver |-> dst.ver \/ src.ver,
     ent |-> [k \in Keys |-> IF src.ent[k] # NoEntry THEN src.ent[k]
                             ELSE dst.ent[k]]]

\* truth value of a returned body
Truthy(s) == s # None /\ s # ""

\* ------------------------------------------------------------------------
\* Outcomes of the file operations of one call
\* ------------------------------------------------------------------------
IOok == [readIndex |-> TRUE, readBody |-> TRUE,
         writeBody |-> "ok", writeIndex |-> "ok"]
\* what can go wrong in _getCached, in _putCached
IOread == {IOok, [IOok EXCEPT !.readIndex = FALSE],
           [IOok EXCEPT !.readBody = FALSE]}
IOwrite == {IOok, [IOok EXCEPT !.writeBody = "openfail"],
            [IOok EXCEPT !.writeBody = "truncated"],
            [IOok EXCEPT !.writeIndex = "openfail"],
            [IOok EXCEPT !.writeIndex = "truncated"]}
IOs == IOread \cup IOwrite

\* the documents of the model: a text and its etag
Docs == {<<None, None>>, <<"", None>>, <<"a", None>>, <<"b", "e1">>}

VARIABLES
    now,        \* datetime.datetime.utcnow()
    cacheDir,   \* self._cacheDir of every instance
    cache,      \* module-level _cache
    aliased,    \* self._cacheIndex is _cache (same object)
    own,        \* self._cacheIndex when it is an object of its own
    diskOK,     \* cache_index.tmp exists and decodes
    diskIndex,  \* content of cache_index.tmp
    body,       \* <key>.tmp files
    unlockedR,  \* source lines that read the shared mapping without the lock
    unlockedW,  \* source lines that wrote the shared mapping without the lock
    calls,      \* number of calls made
    lastPut,    \* per URL: the last put or update of the URL
    entered,    \* URLs whose key was ever entered into an index
    last,       \* the call made last and what it returned
    parsed,     \* a result of _parseScheme
    shrunk,     \* what the shrink passes made of it so far
    passes,     \* number of shrink passes applied
    job,        \* the scraper function called and its arguments
    result,     \* what the call returned or raised
    is_running, \* self._is_running of a StartStopable
    blocking,   \* the argument of the call of start
    startPc,    \* where the thread that called start is
    run         \* what has been called on the StartStopable so far

webVars == <<now, cacheDir, cache, aliased, own, diskOK, diskIndex, body,
             unlockedR, unlockedW, calls, lastPut, entered, last>>
shrinkVars == <<parsed, shrunk, passes>>
scrapVars == <<job, result>>
runVars == <<is_running, blocking, startPc, run>>
vars == <<webVars, shrinkVars, scrapVars, runVars>>

\* nothing called yet on the StartStopable
NoRun == [starts |-> 0, stops |-> 0, stopped |-> "no", slept |-> 0,
          interrupted |-> FALSE, by |-> "none"]

\* StartStopable.__init__
InitStartStopable ==
    /\ is_running = FALSE
    /\ blocking = FALSE
    /\ startPc = "idle"
    /\ run = NoRun

\* the part of the state the cache methods work on; did: the file
\* operations the call has attempted so far
Mem == [cache |-> cache, aliased |-> aliased, own |-> own,
        diskOK |-> diskOK, diskIndex |-> diskIndex, body |-> body,
        unlockedR |-> unlockedR, unlockedW |-> unlockedW, did |-> {}]

\* the file operations that fail under io
Faults(io) ==
    (IF io.readIndex THEN {} ELSE {"readIndex"})
    \cup (IF io.readBody THEN {} ELSE {"readBody"})
    \cup (IF io.writeBody = "ok" THEN {} ELSE {"writeBody"})
    \cup (IF io.writeIndex = "ok" THEN {} ELSE {"writeIndex"})

SelfIndex(m, i) == IF m.aliased[i] THEN m.cache ELSE m.own[i]

\* now - accessed > self._cacheTime
Expired(t, accessed) == t - accessed > CacheTime

\* ------------------------------------------------------------------------
\* WebScraper._getCached
\* ------------------------------------------------------------------------
\* lines 236-251: an empty index is replaced by the index file's content
LoadIndex(m, i, io) ==
    IF ~IsEmpty(SelfIndex(m, i)) THEN m
    ELSE IF io.readIndex /\ m.diskOK
         THEN [m EXCEPT !.aliased[i] = FALSE, !.own[i] = m.diskIndex,
                        !.did = @ \cup {"readIndex"}]
         ELSE [m EXCEPT !.did = @ \cup {"readIndex"}]

\* lines 253-254: a still empty index becomes {'version': "1.0"}
DefaultIndex(m, i) ==
    IF IsEmpty(SelfIndex(m, i))
    THEN [m EXCEPT !.aliased[i] = FALSE, !.own[i] = VersionIndex]
    ELSE m

\* lines 236 and 253 test self._cacheIndex outside the lock; it is the
\* shared mapping while the instance still holds the reference of line 91
NoteRead(m, i, line) ==
    IF m.aliased[i] THEN [m EXCEPT !.unlockedR = @ \cup {line}] ELSE m

\* lines 257-259: with _cache_lock: _cache.update(self._cacheIndex)
MergeIndex(m, i) == [m EXCEPT !.cache = DictUpdate(m.cache, SelfIndex(m, i))]

\* variant: a failed read keeps the access time and etag of the entry
ReadBodyKeepMeta(m, key, io, accessed, eTag) ==
    IF io.readBody /\ m.body[key] # NoFile
    THEN <<m.body[key], accessed, eTag>>
    ELSE <<None, accessed, eTag>>

\* lines 281-295: read the body file
ReadBody(m, key, io, accessed, eTag) ==
    IF io.readBody /\ m.body[key] # NoFile
    THEN <<m.body[key], accessed, eTag>>
    ELSE NoneTriple

\* lines 256-295: look the key up, check the age, read the body
Lookup(m, key, ignoreAccessTime, io, t) ==
    LET accessed == m.cache.ent[key]
    IN  IF accessed = NoEntry THEN [m |-> m, ret |-> NoneTriple]
        ELSE IF Expired(t, accessed.accessTime) /\ ~ignoreAccessTime
             THEN [m |-> m,
                   ret |-> <<None, accessed.accessTime, accessed.ETag>>]
             ELSE [m |-> [m EXCEPT !.did = @ \cup {"readBody"}],
                   ret |-> ReadBody(m, key, io, accessed.accessTime,
                                    accessed.ETag)]

GetCachedOp(m, i, url, ignoreAccessTime, io, t) ==
    IF cacheDir[i] = None
    THEN [m |-> m, ret |-> NoneTriple]
    ELSE LET m1 == LoadIndex(NoteRead(m, i, "L236"), i, io)
             m2 == DefaultIndex(NoteRead(m1, i, "L253"), i)
             m3 == MergeIndex(m2, i)
         IN  Lookup(m3, Key(url), ignoreAccessTime, io, t)

\* ------------------------------------------------------------------------
\* WebScraper._updateCache (accessTime=None: the current time is used)
\* ------------------------------------------------------------------------
UpdateCacheOp(m, i, url, eTag, t) ==
    LET key == Key(url)
        cache_dict == [accessTime |-> t, ETag |-> eTag]
    IN  IF m.aliased[i]
        THEN \* line 319 writes the shared mapping before the lock is taken
             [m EXCEPT !.cache.ent[key] = cache_dict,
                       !.unlockedW = @ \cup {"L319"}]
        ELSE [m EXCEPT !.own[i].ent[key] = cache_dict,
                       !.cache.ent[key] = cache_dict]

\* ------------------------------------------------------------------------
\* WebScraper._putCached
\* ------------------------------------------------------------------------
\* variant: only the missing cache directory is tested
PutSkipsDirOnly(i, html) == cacheDir[i] = None

\* line 335: if not self._cacheDir or not html: return
PutSkips(i, html) == cacheDir[i] = None \/ ~Truthy(html)

\* lines 356-371: write _cache to cache_index.tmp; the file keeps its
\* content when it could not be opened, and no longer decodes when the
\* write failed after open(.., "wb") emptied it
SaveIndex(m, io) ==
    IF io.writeIndex = "ok"
    THEN [m EXCEPT !.diskOK = TRUE, !.diskIndex = m.cache]
    ELSE IF io.writeIndex = "openfail" THEN m
    ELSE [m EXCEPT !.diskOK = FALSE]

\* variant: the index is updated although the body write failed
WriteFailedUpdates(m, i, url, html, eTag, io, t) ==
    LET key == Key(url)
    IN  IF io.writeBody = "openfail" THEN UpdateCacheOp(m, i, url, eTag, t)
        ELSE UpdateCacheOp([m EXCEPT !.body[key] = ""], i, url, eTag, t)

\* lines 339-352: a failed body write leaves the put; the file stays
\* away when it could not be opened and is left empty otherwise
WriteFailed(m, i, url, html, eTag, io, t) ==
    LET key == Key(url)
    IN  IF io.writeBody = "openfail" THEN m
        ELSE [m EXCEPT !.body[key] = ""]

PutCachedOp(m, i, url, html, eTag, io, t) ==
    IF PutSkips(i, html) THEN m
    ELSE IF io.writeBody # "ok"
         THEN WriteFailed([m EXCEPT !.did = @ \cup {"writeBody"}],
                          i, url, html, eTag, io, t)
         ELSE LET key == Key(url)
                  m1 == [m EXCEPT !.body[key] = html,
                                  !.did = @ \cup {"writeBody", "writeIndex"}]
                  m2 == UpdateCacheOp(m1, i, url, eTag, t)
              IN  SaveIndex(m2, io)

\* ------------------------------------------------------------------------
\* WebScraper.get
\* ------------------------------------------------------------------------
\* line 96: cache_use_advanced defaults to True
cache_use_advanced == TRUE

\* what the server can answer: a transport failure, an error status,
\* 304, or 200 with a text (None: no text), an etag header and a final url
Responses(url) ==
    {[status |-> "fail", text |-> None, etag |-> None, url |-> url],
     [status |-> "404", text |-> None, etag |-> None, url |-> url]}
    \cup [status : {"304"}, text : {None}, etag : ETags \cup {None},
          url : {url}]
    \cup {[status |-> "200", text |-> d[1], etag |-> d[2], url |-> url] :
             d \in Docs}
    \cup {[status |-> "200", text |-> "b", etag |-> "e1", url |-> u] :
             u \in URLs \ {url}}

\* lines 484-490: the request is conditional
Conditional(ret) ==
    cache_use_advanced /\ (ret[2] # NoTime \/ (ret[3] # None /\ ret[3] # ""))

\* lines 521-525: 304, the body is read again and the entry is refreshed
NotModified(m, i, url, etag, io, t) ==
    LET g == GetCachedOp(m, i, url, TRUE, io, t)
    IN  [m |-> UpdateCacheOp(g.m, i, url, etag, t), ret |-> g.ret[1]]

\* lines 540-547: the text is stored under the url and the final url
StoreResponse(m, i, url, resp, etag, io, t) ==
    LET m1 == PutCachedOp(m, i, url, resp.text, etag, io, t)
    IN  IF url # resp.url
        THEN PutCachedOp(m1, i, resp.url, resp.text, etag, io, t)
        ELSE m1

GetOp(m, i, url, resp, io, t) ==
    LET g == GetCachedOp(m, i, url, FALSE, io, t)
        etag == IF resp.etag # None THEN resp.etag ELSE g.ret[3]
        out == [m |-> g.m, ret |-> None, raised |-> FALSE, fetched |-> 1,
                cond |-> Conditional(g.ret), etag |-> etag]
    IN  IF Truthy(g.ret[1])
        THEN [out EXCEPT !.ret = g.ret[1], !.fetched = 0]
        ELSE IF resp.status = "fail"
        THEN [out EXCEPT !.raised = TRUE]
        ELSE IF resp.status = "304"
        THEN LET n == NotModified(g.m, i, url, etag, io, t)
             IN  [out EXCEPT !.m = n.m, !.ret = n.ret]
        ELSE IF resp.status = "404" \/ resp.text = None
        THEN [out EXCEPT !.raised = TRUE]
        ELSE [out EXCEPT !.m = StoreResponse(g.m, i, url, resp, etag, io, t),
                         !.ret = resp.text]

\* ------------------------------------------------------------------------
\* WebScraper.shrinkList, WebScraper.shrinkDict
\* ------------------------------------------------------------------------
\* Python values: a string, a list (a sequence), a dict (a function of
\* its keys)
Str(s) == [kind |-> "str", val |-> s]
List(l) == [kind |-> "list", val |-> l]
Dict(d) == [kind |-> "dict", val |-> d]

\* truth value of a value: "", [] and {} are falsy
Bool(x) ==
    IF x.kind = "str" THEN x.val # ""
    ELSE IF x.kind = "list" THEN Len(x.val) > 0
    ELSE DOMAIN x.val # {}

RECURSIVE MapShrinkDict(_)
RECURSIVE shrinkList(_)
RECURSIVE shrinkDict(_)

\* lines 748-752: the loop over a list of several elements
MapShrinkDict(l) ==
    IF l = << >> THEN << >>
    ELSE LET temp == shrinkDict(Head(l))
         IN  (IF Bool(temp) THEN <<temp>> ELSE << >>)
             \o MapShrinkDict(Tail(l))

shrinkList(shrink) ==
    IF shrink.kind # "list"
    THEN IF shrink.kind = "dict" THEN shrinkDict(shrink) ELSE shrink
    ELSE IF Len(shrink.val) = 1 THEN shrinkDict(shrink.val[1])
    ELSE List(MapShrinkDict(shrink.val))

shrinkDict(shrink) ==
    IF shrink.kind # "dict"
    THEN IF shrink.kind = "list" THEN shrinkList(shrink) ELSE shrink
    ELSE IF DOMAIN shrink.val = {"value"}
    THEN shrinkList(shrink.val["value"])
    ELSE LET res == [a \in DOMAIN shrink.val |-> shrinkList(shrink.val[a])]
         IN  Dict([a \in {b \in DOMAIN res : Bool(res[b])} |-> res[a]])

\* ------------------------------------------------------------------------
\* Results of WebScraper._parseScheme
\* ------------------------------------------------------------------------
\* the sequences over S of at most n elements
RECURSIVE SeqUpTo(_, _)
SeqUpTo(S, n) ==
    IF n = 0 THEN {<< >>}
    ELSE LET shorter == SeqUpTo(S, n - 1)
         IN  shorter \cup {Append(l, x) : l \in shorter, x \in S}

\* what _parseValue returns: texts, the empty text among them
Texts == {Str(""), Str("a")}
ValueLists == {List(l) : l \in SeqUpTo(Texts, MaxList)}

\* the result for the scheme of a match's children: a "value" entry, or
\* a "value" and a "link" entry
Children ==
    {Dict("value" :> v) : v \in ValueLists}
    \cup {Dict(("value" :> List(l)) @@ ("link" :> List(<<Str("a")>>))) :
             l \in SeqUpTo(Texts, 1)}

\* the result for a scheme with the entry "title": one dict per match
ParseResults ==
    {Dict("title" :> List(l)) : l \in SeqUpTo(Children, MaxList)}

NoResult == Dict("title" :> List(<< >>))

\* ------------------------------------------------------------------------
\* History of the calls
\* ------------------------------------------------------------------------
NoPut == [ok |-> FALSE, body |-> None, time |-> NoTime, etag |-> None]

\* a put that stored the body and the index without a failure
PutHist(h, i, url, html, eTag, io, t) ==
    IF PutSkips(i, html) THEN h
    ELSE IF io = IOok
         THEN [h EXCEPT ![url] = [ok |-> TRUE, body |-> html, time |-> t,
                                  etag |-> eTag]]
         ELSE [h EXCEPT ![url] = NoPut]

\* at: the time of a call of get
NoCall == [op |-> "none", inst |-> "A", url |-> "u1", ignore |-> FALSE,
           html |-> None, status |-> None, io |-> IOok,
           ret |-> NoneTriple, raised |-> FALSE, fetched |-> 0,
           at |-> NoTime]

\* ------------------------------------------------------------------------
\* Initial state: two scrapers, the second with or without a cache
\* directory; the directory holds what an earlier run left
\* ------------------------------------------------------------------------
LeftIndex ==
    [ver |-> TRUE, ent |-> [k \in Keys |->
        IF k = "k1" THEN [accessTime |-> 0, ETag |-> None] ELSE NoEntry]]

\* no scraper function was called
NoJob == [op |-> None]
NoOut == [op |-> None]

InitWeb ==
    /\ now = 0
    /\ cacheDir \in {[i \in Inst |-> "dir"],
                    [i \in Inst |-> IF i = "A" THEN "dir" ELSE None]}
    /\ cache = EmptyIndex
    /\ aliased = [i \in Inst |-> TRUE]
    /\ own = [i \in Inst |-> EmptyIndex]
    /\ diskOK = TRUE
    /\ diskIndex = LeftIndex
    /\ body = [k \in Keys |-> IF k = "k1" THEN "a" ELSE NoFile]
    /\ entered = {"u1"}
    /\ unlockedR = {}
    /\ unlockedW = {}
    /\ calls = 0
    /\ lastPut = [u \in URLs |-> NoPut]
    /\ last = NoCall

Init ==
    /\ InitWeb
    /\ InitStartStopable
    /\ parsed = NoResult
    /\ shrunk = NoResult
    /\ passes = 0
    /\ job = NoJob
    /\ result = NoOut

SetMem(m) ==
    /\ calls' = calls + 1
    /\ cache' = m.cache
    /\ aliased' = m.aliased
    /\ own' = m.own
    /\ diskOK' = m.diskOK
    /\ diskIndex' = m.diskIndex
    /\ body' = m.body
    /\ unlockedR' = m.unlockedR
    /\ unlockedW' = m.unlockedW

\* time passes
Tick ==
    /\ now < MaxTime
    /\ now' = now + 1
    /\ UNCHANGED <<cacheDir, cache, aliased, own, diskOK, diskIndex, body,
                   unlockedR, unlockedW, calls, lastPut, entered, last>>
    /\ UNCHANGED <<shrinkVars, scrapVars, runVars>>

\* a call of _getCached(url, ignoreAccessTime)
GetCached(i, url, ignoreAccessTime, io) ==
    LET g == GetCachedOp(Mem, i, url, ignoreAccessTime, io, now)
    IN  /\ SetMem(g.m)
        /\ last' = [NoCall EXCEPT !.op = "getCached", !.inst = i,
                        !.url = url, !.ignore = ignoreAccessTime,
                        !.io = io, !.ret = g.ret]
        /\ UNCHANGED <<now, cacheDir, lastPut, entered>>
        /\ UNCHANGED <<shrinkVars, scrapVars, runVars>>

\* a call of _putCached(url, html, eTag)
PutCached(i, url, html, eTag, io) ==
    /\ SetMem(PutCachedOp(Mem, i, url, html, eTag, io, now))
    /\ lastPut' = PutHist(lastPut, i, url, html, eTag, io, now)
    /\ entered' = IF PutSkips(i, html) \/ io.writeBody # "ok" THEN entered
                  ELSE entered \cup {url}
    /\ last' = [NoCall EXCEPT !.op = "putCached", !.inst = i, !.url = url,
                    !.html = html, !.io = io]
    /\ UNCHANGED <<now, cacheDir>>
    /\ UNCHANGED <<shrinkVars, scrapVars, runVars>>

\* what a call of get does to the history of puts
GetHist(h, i, url, resp, r, io, t) ==
    LET stored == r.fetched = 1 /\ ~r.raised /\ resp.status = "200"
        h1 == IF stored THEN PutHist(h, i, url, resp.text, r.etag, io, t)
              ELSE IF r.fetched = 1 /\ resp.status = "304"
                   THEN [h EXCEPT ![url] = NoPut]
                   ELSE h
    IN  IF stored /\ resp.url # url
        THEN PutHist(h1, i, resp.url, resp.text, r.etag, io, t)
        ELSE h1

GetEntered(i, url, resp, r, io) ==
    IF r.fetched = 1 /\ resp.status = "304" THEN {url}
    ELSE IF r.fetched = 1 /\ ~r.raised /\ resp.status = "200"
            /\ ~PutSkips(i, resp.text) /\ io.writeBody = "ok"
         THEN {url, resp.url}
         ELSE {}

\* what a call of get(url) that the server answers with resp does to the
\* cache and to the history; the server answers 304 to a conditional
\* request only
GetCall(i, url, resp, io) ==
    /\ \E r \in {GetOp(Mem, i, url, resp, io, now)} :
        /\ resp.status = "304" => r.cond
        /\ SetMem(r.m)
        /\ lastPut' = GetHist(lastPut, i, url, resp, r, io, now)
        /\ entered' = entered \cup GetEntered(i, url, resp, r, io)
        /\ last' = [NoCall EXCEPT !.op = "get", !.inst = i, !.url = url,
                        !.html = IF r.fetched = 1 THEN resp.text ELSE None,
                        !.status = IF r.fetched = 1 THEN resp.status
                                   ELSE None,
                        !.io = io, !.ret = <<r.ret, NoTime, None>>,
                        !.raised = r.raised, !.fetched = r.fetched,
                        !.at = now]
        /\ UNCHANGED <<now, cacheDir>>

\* a call of get(url)
Get(i, url, resp, io) ==
    /\ calls < MaxGets
    /\ GetCall(i, url, resp, io)
    /\ UNCHANGED <<shrinkVars, scrapVars, runVars>>

\* only a file operation that the call attempts can fail: did names the
\* operations attempted when nothing fails
IOfor(did) == {io \in IOs : Faults(io) \subseteq did}

\* at most n calls of the cache methods; the time that passes after the
\* last call of a run is not followed
NextCacheUpTo(n) ==
    \/ calls < n /\ Tick
    \/ /\ calls < n
       /\ \E i \in Inst, url \in URLs, ign \in BOOLEAN :
             \E io \in IOfor(GetCachedOp(Mem, i, url, ign, IOok, now).m.did) :
                GetCached(i, url, ign, io)
    \/ /\ calls < n
       /\ \E i \in Inst, url \in URLs, d \in Docs :
             \E io \in IOfor(PutCachedOp(Mem, i, url, d[1], d[2], IOok,
                                         now).did) :
                PutCached(i, url, d[1], d[2], io)

NextCache == NextCacheUpTo(MaxCalls)

SpecCache == Init /\ [][NextCache]_vars

\* longer runs of the cache methods
NextCacheLong == NextCacheUpTo(MaxCallsLong)

SpecCacheLong == Init /\ [][NextCacheLong]_vars

\* calls of get
NextGet ==
    \/ calls < MaxGets /\ Tick
    \/ /\ calls < MaxGets
       /\ \E i \in Inst, url \in URLs : \E resp \in Responses(url) :
             \E io \in IOfor(GetOp(Mem, i, url, resp, IOok, now).m.did) :
                Get(i, url, resp, io)

SpecGet == Init /\ [][NextGet]_vars

\* ------------------------------------------------------------------------
\* Shrinking a result of _parseScheme
\* ------------------------------------------------------------------------
InitShrink ==
    /\ InitWeb
    /\ InitStartStopable
    /\ cacheDir = [i \in Inst |-> "dir"]
    /\ parsed \in ParseResults
    /\ shrunk = parsed
    /\ passes = 0
    /\ job = NoJob
    /\ result = NoOut

\* a call of shrinkDict on the result of the pass before
ShrinkDictPass ==
    /\ passes < MaxPasses
    /\ shrunk' = shrinkDict(shrunk)
    /\ passes' = passes + 1
    /\ UNCHANGED <<parsed, webVars, scrapVars, runVars>>

NextShrink == ShrinkDictPass

SpecShrink == InitShrink /\ [][NextShrink]_vars

\* ------------------------------------------------------------------------
\* Texts of the document
\* ------------------------------------------------------------------------
\* A unicode string is a sequence of pieces: single characters, and in
\* markup a tag or attribute name as one piece.
Whitespace == {" ", "\n"}

RECURSIVE lstrip(_)
lstrip(s) ==
    IF s # << >> /\ Head(s) \in Whitespace THEN lstrip(Tail(s)) ELSE s

RECURSIVE rstrip(_)
rstrip(s) ==
    IF s # << >> /\ s[Len(s)] \in Whitespace
    THEN rstrip(SubSeq(s, 1, Len(s) - 1)) ELSE s

\* unicode.strip()
strip(s) == rstrip(lstrip(s))

\* variant: the values follow each other without the separator
RECURSIVE joinNoSep(_, _)
joinNoSep(sep, l) ==
    IF l = << >> THEN << >> ELSE l[1] \o joinNoSep(sep, Tail(l))

\* u" ".join(res)
RECURSIVE join(_, _)
join(sep, l) ==
    IF l = << >> THEN << >>
    ELSE IF Len(l) = 1 THEN l[1]
    ELSE l[1] \o sep \o join(sep, Tail(l))

\* reg.findall(a) for a pattern that is a literal text without groups: the
\* non-overlapping occurrences from left to right
RECURSIVE findall(_, _)
findall(pat, s) ==
    IF Len(s) < Len(pat) THEN << >>
    ELSE IF SubSeq(s, 1, Len(pat)) = pat
         THEN <<pat>> \o findall(pat, SubSeq(s, Len(pat) + 1, Len(s)))
         ELSE findall(pat, Tail(s))

\* the string as a value of the result
RECURSIVE Text(_)
Text(s) == IF s = << >> THEN "" ELSE s[1] \o Text(Tail(s))

\* ------------------------------------------------------------------------
\* The parsed document
\* ------------------------------------------------------------------------
\* <html><div class="a b"><h1>  Hello  </h1><p id="x">a b</p></div>
\*       <div><p> b</p><p class="c"></p><p id=" y">b  </p></div></html>
NoAttrs == [a \in {} |-> None]
One(v) == [list |-> FALSE, val |-> v]
Multi(l) == [list |-> TRUE, val |-> l]
Tag(name, attrs, text, kids) ==
    [name |-> name, attrs |-> attrs, text |-> text, kids |-> kids]

Doc ==
    << Tag("html", NoAttrs, << >>, <<2, 5>>),
       Tag("div", "class" :> Multi(<< <<"a">>, <<"b">> >>), << >>, <<3, 4>>),
       Tag("h1", NoAttrs, <<" ", " ", "H", "e", "l", "l", "o", " ", " ">>,
           << >>),
       Tag("p", "id" :> One(<<"x">>), <<"a", " ", "b">>, << >>),
       Tag("div", NoAttrs, << >>, <<6, 7, 8>>),
       Tag("p", NoAttrs, <<" ", "b">>, << >>),
       Tag("p", "class" :> Multi(<< <<"c">> >>), << >>, << >>),
       Tag("p", "id" :> One(<<" ", "y">>), <<"b", " ", " ">>, << >>),
       Tag("[document]", NoAttrs, << >>, <<1>>) >>

Nodes == 1..Len(Doc)
Root == 1
\* the BeautifulSoup object, above the html tag
Document == 9

RECURSIVE Flat(_)
Flat(l) == IF l = << >> THEN << >> ELSE Head(l) \o Flat(Tail(l))

\* the tags below a tag, in document order
RECURSIVE Descendants(_)
Descendants(n) ==
    Flat([i \in 1..Len(Doc[n].kids) |->
            <<Doc[n].kids[i]>> \o Descendants(Doc[n].kids[i])])

\* match.getText()
RECURSIVE getText(_)
getText(n) ==
    Doc[n].text \o Flat([i \in 1..Len(Doc[n].kids) |-> getText(Doc[n].kids[i])])

\* match[attr]
AttrText(v) == IF v.list THEN join(<<" ">>, v.val) ELSE v.val

\* unicode(match)
RECURSIVE Markup(_)
Markup(n) ==
    LET t == Doc[n]
        attrs == IF DOMAIN t.attrs = {} THEN << >>
                 ELSE LET a == CHOOSE x \in DOMAIN t.attrs : TRUE
                      IN  <<" ", a, "=", "\"">> \o AttrText(t.attrs[a])
                          \o <<"\"">>
    IN  IF n = Document
        THEN Flat([i \in 1..Len(t.kids) |-> Markup(t.kids[i])])
        ELSE <<"<", t.name>> \o attrs \o <<">">> \o t.text
             \o Flat([i \in 1..Len(t.kids) |-> Markup(t.kids[i])])
             \o <<"<", "/", t.name, ">">>

\* html2text.html2text(unicode(match)): the paragraphs of the text, a
\* heading marked with "# "
RECURSIVE html2text(_)
html2text(n) ==
    LET t == Doc[n]
    IN  IF t.kids = << >>
        THEN IF strip(t.text) = << >> THEN << >>
             ELSE (IF t.name = "h1" THEN <<"#", " ">> ELSE << >>)
                  \o strip(t.text) \o <<"\n", "\n">>
        ELSE Flat([i \in 1..Len(t.kids) |-> html2text(t.kids[i])])

\* ------------------------------------------------------------------------
\* _getTagMatch
\* ------------------------------------------------------------------------
\* a level of a tree: t.get('name'), t.get('recursive', True), the
\* remaining attributes of the level and t["[]"]
NoSel == [kind |-> None, i |-> 0]
Index(i) == [kind |-> "index", i |-> i]
SliceFrom(i) == [kind |-> "slice", i |-> i]
Level(name, recursive, attrs, sel) ==
    [name |-> name, recursive |-> recursive, attrs |-> attrs, sel |-> sel]

\* a tree: None, or a list of levels
NoTree == [given |-> FALSE, levels |-> << >>]
Tree(levels) == [given |-> TRUE, levels |-> levels]

Range(l) == {l[i] : i \in 1..Len(l)}

\* a pattern: None, a compiled pattern, or the dict
\* {"type": "reg", "reg": pattern} that is compiled when it is first used
NoReg == [form |-> None, pat |-> << >>]
Compiled(pat) == [form |-> "compiled", pat |-> pat]
RegDict(pat) == [form |-> "dict", pat |-> pat]
\* an attribute of a level that is a literal text
Literal(v) == [form |-> "literal", pat |-> v]

\* pattern.search(text) for a literal pattern
Search(pat, text) == findall(pat, text) # << >>

\* the filter of find_all on one attribute; a multi-valued attribute fits
\* when one of its values or the whole of it is the wanted text or holds a
\* match of the pattern; no attribute equals a dict
AttrFits(v, want) ==
    IF want.form = "literal"
    THEN IF v.list THEN want.pat \in Range(v.val) \/ AttrText(v) = want.pat
         ELSE v.val = want.pat
    ELSE IF want.form = "compiled"
    THEN IF v.list
         THEN \/ \E x \in Range(v.val) : Search(want.pat, x)
              \/ Search(want.pat, AttrText(v))
         ELSE Search(want.pat, v.val)
    ELSE FALSE

Fits(n, t) ==
    /\ t.name # None => Doc[n].name = t.name
    /\ \A a \in DOMAIN t.attrs :
         a \in DOMAIN Doc[n].attrs /\ AttrFits(Doc[n].attrs[a], t.attrs[a])

\* ele.find_all(name, text=None, attrs=attributes, recursive=recursive)
find_all(ele, t) ==
    SelectSeq(IF t.recursive THEN Descendants(ele) ELSE Doc[ele].kids,
              LAMBDA n : Fits(n, t))

\* variant: the selector "0" keeps the last candidate
SelectLast(possibles, sel) ==
    LET n == Len(possibles)
    IN  IF sel.kind = None THEN [raised |-> FALSE, val |-> possibles]
        ELSE IF sel.kind = "index"
        THEN IF sel.i >= 0 - n /\ sel.i < n
             THEN [raised |-> FALSE, val |-> <<possibles[n]>>]
             ELSE [raised |-> TRUE, val |-> << >>]
        ELSE [raised |-> FALSE, val |-> SubSeq(possibles, sel.i + 1, n)]

\* eval(u"possibles[{}]".format(t["[]"])), a single tag put into a list
Select(possibles, sel) ==
    LET n == Len(possibles)
    IN  IF sel.kind = None THEN [raised |-> FALSE, val |-> possibles]
        ELSE IF sel.kind = "index"
        THEN IF sel.i >= 0 - n /\ sel.i < n
             THEN [raised |-> FALSE,
                   val |-> <<possibles[IF sel.i < 0 THEN n + sel.i + 1
                                       ELSE sel.i + 1]>>]
             ELSE [raised |-> TRUE, val |-> << >>]
        ELSE [raised |-> FALSE, val |-> SubSeq(possibles, sel.i + 1, n)]

\* what _getTagMatch returns: None or a list of tags; finds counts the
\* calls of find_all it made
NotFound(finds) ==
    [none |-> TRUE, nodes |-> << >>, finds |-> finds, raised |-> FALSE]
Found(nodes, finds) ==
    [none |-> FALSE, nodes |-> nodes, finds |-> finds, raised |-> FALSE]
\* t = tree[0] of an empty list raises IndexError
TreeRaised ==
    [none |-> FALSE, nodes |-> << >>, finds |-> 0, raised |-> TRUE]

RECURSIVE SumFinds(_)
SumFinds(l) == IF l = << >> THEN 0 ELSE Head(l).finds + SumFinds(Tail(l))

\* variant: an empty res is returned as it is
CollectEmpty(res, finds) == Found(res, finds)

\* if not res: return None, else: return res
Collect(res, finds) ==
    IF res = << >> THEN NotFound(finds) ELSE Found(res, finds)

\* variant: the matches of the candidates in reverse order
ExtendRev(sub) ==
    Flat([i \in 1..Len(sub) |->
            IF sub[Len(sub) + 1 - i].none THEN << >>
            ELSE sub[Len(sub) + 1 - i].nodes])

\* for a in possibles: if match: res.extend(match)
Extend(sub) ==
    Flat([i \in 1..Len(sub) |-> IF sub[i].none THEN << >> ELSE sub[i].nodes])

\* if t[attr].get("type") == "reg": t[attr] = re.compile(t[attr]['reg'])
CompileLevel(t) ==
    [t EXCEPT !.attrs = [a \in DOMAIN t.attrs |->
        IF t.attrs[a].form = "dict" THEN Compiled(t.attrs[a].pat)
        ELSE t.attrs[a]]]

\* variant: the search uses the level as it was before it was compiled
SearchLevelRaw(t) == t

\* the level find_all is called with: t after the patterns were compiled
SearchLevel(t) == CompileLevel(t)

\* possibles when the loop over the candidates starts: [] when find_all
\* found nothing or the selector failed
MatchCandidates(ele, t) ==
    IF find_all(ele, SearchLevel(t)) = << >> THEN << >>
    ELSE IF Select(find_all(ele, SearchLevel(t)), t.sel).raised THEN << >>
    ELSE Select(find_all(ele, SearchLevel(t)), t.sel).val

\* variant: only None is the base case
BaseCaseNone(tree) == ~tree.given

\* tree in [None, []]
BaseCase(tree) == ~tree.given \/ tree.levels = << >>

RECURSIVE getTagMatch(_, _)
getTagMatch(ele, tree) ==
    IF BaseCase(tree) THEN Found(<<ele>>, 0)
    ELSE IF tree.levels = << >> THEN TreeRaised
    ELSE LET t == SearchLevel(Head(tree.levels))
             branch == Tree(Tail(tree.levels))
             possibles == find_all(ele, t)
         IN  IF possibles = << >> THEN NotFound(1)
             ELSE LET sel == Select(possibles, t.sel)
                  IN  IF sel.raised THEN NotFound(1)
                      ELSE LET sub == [i \in 1..Len(sel.val) |->
                                         getTagMatch(sel.val[i], branch)]
                           IN  Collect(Extend(sub), 1 + SumFinds(sub))

\* ------------------------------------------------------------------------
\* Calls of _getTagMatch
\* ------------------------------------------------------------------------
MaxDepth == 2

Sels == {NoSel, Index(0), Index(10), Index(0 - 1), SliceFrom(1)}
Levels ==
    {Level(n, r, NoAttrs, x) : n \in {None, "p", "div"}, r \in BOOLEAN,
                               x \in Sels}
    \cup {Level("p", TRUE, "id" :> Literal(<<"x">>), NoSel),
          Level(None, TRUE, "class" :> Literal(<<"a">>), NoSel)}
TreesUpTo(n) == {NoTree} \cup {Tree(l) : l \in SeqUpTo(Levels, n)}

InitIdle ==
    /\ InitWeb
    /\ InitStartStopable
    /\ cacheDir = [i \in Inst |-> "dir"]
    /\ parsed = NoResult
    /\ shrunk = NoResult
    /\ passes = 0
    /\ result = NoOut

InitMatch ==
    /\ InitIdle
    /\ job \in {[op |-> "_getTagMatch", ele |-> n, tree |-> t] :
                  n \in Nodes, t \in TreesUpTo(MaxDepth)}

GetTagMatch ==
    /\ job.op = "_getTagMatch"
    /\ result = NoOut
    /\ result' = [op |-> job.op, ret |-> getTagMatch(job.ele, job.tree)]
    /\ UNCHANGED <<job, webVars, shrinkVars, runVars>>

NextMatch == GetTagMatch

SpecMatch == InitMatch /\ [][NextMatch]_vars

\* ------------------------------------------------------------------------
\* _parseValue
\* ------------------------------------------------------------------------

\* a value scheme: its entries type, attribute, strip and reg (None where
\* the entry is missing)
ValueScheme(type, attribute, strip_, reg) ==
    [type |-> type, attribute |-> attribute, strip |-> strip_, reg |-> reg]

\* what _parseValue returns, or that it raised
Returned(val) == [raised |-> FALSE, val |-> val]
ValueRaised == [raised |-> TRUE, val |-> << >>]

\* the strings one tag appends to val: one, or none for a tag without the
\* attribute
Appended(match, vs) ==
    IF vs.type \in {"text", "content"} THEN <<getText(match)>>
    ELSE IF vs.type = "attribute" /\ vs.attribute # None
    THEN IF vs.attribute \in DOMAIN Doc[match].attrs
         THEN <<AttrText(Doc[match].attrs[vs.attribute])>>
         ELSE << >>
    ELSE IF vs.type = "html" THEN <<Markup(match)>>
    ELSE <<html2text(match)>>

\* val[-1] = val[-1].strip(); IndexError on an empty val
StripLast(val) ==
    IF val = << >> THEN ValueRaised
    ELSE Returned([val EXCEPT ![Len(val)] = strip(@)])

\* for match in eles: ..., with val as it is before the loop goes on
RECURSIVE ExtractLoop(_, _, _)
ExtractLoop(eles, vs, val) ==
    IF eles = << >> THEN Returned(val)
    ELSE LET val1 == val \o Appended(Head(eles), vs)
         IN  IF vs.strip
             THEN IF StripLast(val1).raised THEN ValueRaised
                  ELSE ExtractLoop(Tail(eles), vs, StripLast(val1).val)
             ELSE ExtractLoop(Tail(eles), vs, val1)

\* if reg: for a in val: res.extend(reg.findall(a)), else: res = val
FindAll(reg, val) ==
    IF reg.form = None THEN val
    ELSE Flat([i \in 1..Len(val) |-> findall(reg.pat, val[i])])

parseValue(eles, vs) ==
    LET loop == ExtractLoop(eles, vs, << >>)
    IN  IF loop.raised THEN ValueRaised
        ELSE Returned(FindAll(vs.reg, loop.val))

\* ------------------------------------------------------------------------
\* Calls of _parseValue
\* ------------------------------------------------------------------------
MaxEles == 2

Regs == {NoReg, Compiled(<<"b">>), Compiled(<<"l">>),
         RegDict(<<"a", " ", "b">>)}
ValueSchemes ==
    {ValueScheme(t, None, s, r) :
        t \in {"text", "content", "html", None}, s \in BOOLEAN, r \in Regs}
    \cup {ValueScheme("attribute", a, s, r) :
        a \in {None, "id", "class"}, s \in BOOLEAN, r \in Regs}
\* a tag with a multi-valued attribute, the heading, tags with and without
\* an id
ValueNodes == {2, 3, 4, 6, 8}

InitValue ==
    /\ InitIdle
    /\ job \in {[op |-> "_parseValue", eles |-> l, valueScheme |-> vs] :
                  l \in SeqUpTo(ValueNodes, MaxEles), vs \in ValueSchemes}

ParseValue ==
    /\ job.op = "_parseValue"
    /\ result = NoOut
    /\ result' = [op |-> job.op, ret |-> parseValue(job.eles, job.valueScheme)]
    /\ UNCHANGED <<job, webVars, shrinkVars, runVars>>

NextValue == ParseValue

SpecValue == InitValue /\ [][NextValue]_vars

\* ------------------------------------------------------------------------
\* _parseScheme
\* ------------------------------------------------------------------------
\* a scheme: a dict from keys to entities
EmptyScheme == [a \in {} |-> None]
NoValueEntry == ValueScheme(None, None, FALSE, NoReg)

\* an entity: "tree" and "children" if it has them, the entries _parseValue
\* reads from it (type, attribute, strip, reg), and an entry "value" if it
\* has one
Entity(hasTree, tree, hasChildren, children, vs, hasValue, value) ==
    [hasTree |-> hasTree, tree |-> tree,
     hasChildren |-> hasChildren, children |-> children,
     type |-> vs.type, attribute |-> vs.attribute, strip |-> vs.strip,
     reg |-> vs.reg,
     hasValue |-> hasValue, value |-> value]

\* what _parseScheme returns, or that it raised
SchemeReturned(res) == [raised |-> FALSE, val |-> Dict(res)]
SchemeRaised == [raised |-> TRUE, val |-> Dict(EmptyScheme)]

\* the strings of _parseValue as values of the result
Strs(val) == [i \in 1..Len(val) |-> Str(Text(val[i]))]

\* val n times
RECURSIVE Times(_, _)
Times(val, n) == IF n = 0 THEN << >> ELSE val \o Times(val, n - 1)

\* if not matches: matches = []
MatchList(match) == IF match.none THEN << >> ELSE match.nodes

\* matches = self._getTagMatch(ele, entity['tree']); [] without a tree
Matches(ele, entity) ==
    IF entity.hasTree THEN MatchList(getTagMatch(ele, entity.tree))
    ELSE << >>

\* if not matches and "value" == aKey
DirectValue(matches, aKey) == matches = << >> /\ aKey = "value"

\* val after the two places that extend it: the strings of
\* _parseValue([ele], entity), once without matches and once per match
ValueOf(aKey, matches, strs) ==
    IF aKey # "value" THEN << >>
    ELSE IF matches = << >> THEN strs
    ELSE Times(strs, Len(matches))

\* obj of one match: obj['value'] = val, then obj.update(child) for a
\* child that is not empty
Obj(aKey, val, child) ==
    (IF Bool(child) THEN child.val ELSE EmptyScheme)
    @@ (IF aKey = "value" THEN "value" :> List(Strs(val)) ELSE EmptyScheme)

\* if obj: res[aKey].append(obj)
AppendObj(obj) == IF DOMAIN obj # {} THEN <<Dict(obj)>> ELSE << >>

\* one pass of the loop `for aKey in scheme`: res[aKey], or that it raised;
\* pv is what _parseValue([ele], entity) gives and childs holds, for every
\* match, what _parseScheme gives for the children of the entity
EntityResult(aKey, entity, matches, pv, childs) ==
    IF \/ aKey = "value" /\ pv.raised
       \/ entity.hasChildren /\ \E i \in 1..Len(matches) : childs[i].raised
    THEN [raised |-> TRUE, val |-> List(<< >>)]
    ELSE [raised |-> FALSE,
          val |-> List(
              (IF DirectValue(matches, aKey)
               THEN Strs(ValueOf(aKey, matches, pv.val)) ELSE << >>)
              \o (IF entity.hasChildren
                  THEN Flat([i \in 1..Len(matches) |->
                        AppendObj(Obj(aKey, ValueOf(aKey, matches, pv.val),
                                      childs[i].val))])
                  ELSE << >>))]

\* return res, unless a pass of the loop raised
SchemeResult(scheme, res) ==
    IF \E aKey \in DOMAIN scheme : res[aKey].raised THEN SchemeRaised
    ELSE SchemeReturned([aKey \in DOMAIN scheme |-> res[aKey].val])

\* variant: the strings are taken from the first match of the tree
ValueSourceMatch(ele, matches) ==
    IF matches = << >> THEN <<ele>> ELSE <<matches[1]>>

\* the eles of self._parseValue([ele], entity), with or without matches
ValueSource(ele, matches) == <<ele>>

RECURSIVE parseScheme(_, _)

\* child = self._parseScheme(a, entity['children']) for a in matches
ChildResults(matches, entity) ==
    [i \in 1..Len(matches) |->
        IF entity.hasChildren THEN parseScheme(matches[i], entity.children)
        ELSE SchemeReturned(EmptyScheme)]

parseEntity(aKey, entity, matches, pv) ==
    EntityResult(aKey, entity, matches, pv, ChildResults(matches, entity))

parseScheme(ele, scheme) ==
    SchemeResult(scheme,
        [aKey \in DOMAIN scheme |->
            parseEntity(aKey, scheme[aKey], Matches(ele, scheme[aKey]),
                        parseValue(ValueSource(ele, Matches(ele, scheme[aKey])),
                                   scheme[aKey]))])

\* ------------------------------------------------------------------------
\* Calls of _parseScheme, and shrinkDict on what they return
\* ------------------------------------------------------------------------
SchemeValues ==
    {ValueScheme("text", None, TRUE, NoReg),
     ValueScheme("text", None, FALSE, Compiled(<<"l">>)),
     ValueScheme("attribute", "id", TRUE, NoReg),
     ValueScheme("attribute", "class", FALSE, NoReg)}
SchemeTrees ==
    {Tree(<<Level(n, TRUE, NoAttrs, x)>>) :
        n \in {"h1", "p", "div"}, x \in {NoSel, Index(0), Index(10)}}

\* a key with its value scheme, with or without a tree
ValueEntities ==
    {Entity(FALSE, NoTree, FALSE, EmptyScheme, vs, FALSE, NoValueEntry) :
        vs \in SchemeValues}
    \cup {Entity(TRUE, t, FALSE, EmptyScheme, vs, FALSE, NoValueEntry) :
        t \in SchemeTrees, vs \in SchemeValues}
ChildSchemes ==
    {"value" :> e : e \in {x \in ValueEntities :
        ~x.hasTree \/ x.tree.levels[1].name = "p"}}

\* children without a key "value"
ItemScheme ==
    "item" :> Entity(FALSE, NoTree, FALSE, EmptyScheme, NoValueEntry,
                     FALSE, NoValueEntry)

Schemes ==
    {k :> Entity(TRUE, t, TRUE, c, NoValueEntry, FALSE, NoValueEntry) :
        k \in {"title", "value"}, t \in SchemeTrees \cup {NoTree},
        c \in ChildSchemes}
    \cup {"title" :> Entity(TRUE, t, FALSE, EmptyScheme, NoValueEntry, TRUE, vs) :
        t \in SchemeTrees, vs \in SchemeValues}
    \cup {"value" :> e : e \in ValueEntities}
    \cup {"value" :> Entity(TRUE, t, TRUE, ItemScheme, vs, FALSE, NoValueEntry) :
        t \in SchemeTrees, vs \in SchemeValues}
SchemeNodes == {Root, 2, 5}

InitScheme ==
    /\ InitIdle
    /\ job \in {[op |-> "_parseScheme", ele |-> n, scheme |-> sc] :
                  n \in SchemeNodes, sc \in Schemes}

ParseScheme ==
    /\ job.op = "_parseScheme"
    /\ result = NoOut
    /\ result' = [op |-> job.op, ret |-> parseScheme(job.ele, job.scheme)]
    /\ parsed' = result'.ret.val
    /\ shrunk' = result'.ret.val
    /\ UNCHANGED <<passes, job, webVars, runVars>>

\* shrinkDict on the result
ShrinkParsed ==
    /\ result.op = "_parseScheme"
    /\ ~result.ret.raised
    /\ ShrinkDictPass

NextScheme ==
    \/ ParseScheme
    \/ ShrinkParsed

SpecScheme == InitScheme /\ [][NextScheme]_vars

\* ------------------------------------------------------------------------
\* The scheme after a call: the patterns _getTagMatch compiled in place
\* ------------------------------------------------------------------------
RECURSIVE TreeAfter(_, _)
RECURSIVE TreeAfterAll(_, _)

\* the tree after _getTagMatch(ele, tree): t is compiled, and the levels of
\* branch (which holds the same dicts as tree) by the calls for the
\* candidates
TreeAfter(ele, tree) ==
    IF BaseCase(tree) THEN tree
    ELSE Tree(<<CompileLevel(Head(tree.levels))>>
              \o TreeAfterAll(MatchCandidates(ele, Head(tree.levels)),
                              Tree(Tail(tree.levels))).levels)

\* for a in possibles: self._getTagMatch(a, branch)
TreeAfterAll(possibles, branch) ==
    IF possibles = << >> THEN branch
    ELSE TreeAfterAll(Tail(possibles), TreeAfter(Head(possibles), branch))

RECURSIVE SchemeAfter(_, _)
RECURSIVE SchemeAfterAll(_, _)

\* the entity after one pass of `for aKey in scheme`
EntityAfter(entity, treeAfter, childrenAfter) ==
    [entity EXCEPT !.tree = IF entity.hasTree THEN treeAfter ELSE @,
                   !.children = IF entity.hasChildren THEN childrenAfter
                                ELSE @]

\* the scheme after _parseScheme(ele, scheme)
SchemeAfter(ele, scheme) ==
    [aKey \in DOMAIN scheme |->
        EntityAfter(scheme[aKey], TreeAfter(ele, scheme[aKey].tree),
                    SchemeAfterAll(Matches(ele, scheme[aKey]),
                                   scheme[aKey].children))]

\* for a in matches: self._parseScheme(a, entity['children'])
SchemeAfterAll(matches, children) ==
    IF matches = << >> THEN children
    ELSE SchemeAfterAll(Tail(matches), SchemeAfter(Head(matches), children))

\* ------------------------------------------------------------------------
\* Two calls of _parseScheme with the same scheme object
\* ------------------------------------------------------------------------
PatternAttrs ==
    {NoAttrs, "id" :> RegDict(<<"x">>), "id" :> RegDict(<<"y">>),
     "class" :> RegDict(<<"a">>), "class" :> Compiled(<<"c">>),
     "id" :> Literal(<<"x">>)}
PatternLevels ==
    {Level(n, TRUE, a, NoSel) : n \in {None, "p", "div"}, a \in PatternAttrs}
PatternSchemes(depth) ==
    {"title" :> Entity(TRUE, Tree(l), TRUE, c, NoValueEntry, FALSE,
                       NoValueEntry) :
        l \in SeqUpTo(PatternLevels, depth) \ {<< >>},
        c \in {ItemScheme,
               "value" :> Entity(FALSE, NoTree, FALSE, EmptyScheme,
                                 ValueScheme("text", None, TRUE,
                                             RegDict(<<"b">>)),
                                 FALSE, NoValueEntry)}}

InitTwice ==
    /\ InitIdle
    /\ job \in {[op |-> "twice", ele |-> n, scheme |-> sc] :
                  n \in {Root, 5}, sc \in PatternSchemes(MaxDepth)}

\* the first call; it leaves its patterns compiled in the scheme
ParseFirst ==
    /\ job.op = "twice"
    /\ result = NoOut
    /\ result' = [op |-> "first", scheme |-> job.scheme,
                  ret |-> parseScheme(job.ele, job.scheme)]
    /\ job' = [job EXCEPT !.scheme = SchemeAfter(job.ele, job.scheme)]
    /\ UNCHANGED <<webVars, shrinkVars, runVars>>

\* the second call, with the scheme as the first left it
ParseSecond ==
    /\ result.op = "first"
    /\ result' = [op |-> "second", scheme |-> result.scheme,
                  ret |-> result.ret,
                  again |-> parseScheme(job.ele, job.scheme)]
    /\ job' = [job EXCEPT !.scheme = SchemeAfter(job.ele, job.scheme)]
    /\ UNCHANGED <<webVars, shrinkVars, runVars>>

NextTwice ==
    \/ ParseFirst
    \/ ParseSecond

SpecTwice == InitTwice /\ [][NextTwice]_vars

\* ------------------------------------------------------------------------
\* Claims
\* ------------------------------------------------------------------------
\* a step that is a call: of _getCached, of _putCached, of get
CallStep == calls' = calls + 1

\* C1: cache put/get over time: with caching enabled and no I/O failure,
\* after put(u, b, e) at time t, and no other put or update of u since,
\* a _getCached(u) without ignoreAccessTime returns (b, t, e) while
\* now - t <= cache_time and (None, t, e) once now - t > cache_time.
C1_PutThenGet ==
    [][(/\ CallStep
        /\ last'.op = "getCached"
        /\ ~last'.ignore
        /\ last'.io = IOok
        /\ cacheDir[last'.inst] # None
        /\ lastPut[last'.url].ok)
       => LET put == lastPut[last'.url]
          IN  last'.ret = IF now - put.time <= CacheTime
                          THEN <<put.body, put.time, put.etag>>
                          ELSE <<None, put.time, put.etag>>]_vars

\* C2: cold cache: _getCached(url) returns (None, None, None) when the
\* instance has no cache directory, and when the url's key was never
\* entered into the index, in memory or in the index file, whatever was
\* done with other urls.
C2_ColdCache ==
    (last.op = "getCached"
     /\ (cacheDir[last.inst] = None \/ last.url \notin entered))
    => last.ret = NoneTriple

\* C2 witness: a url is looked up that was never entered, after a put of
\* the other url
C2_Witness ==
    /\ last.op = "getCached"
    /\ cacheDir[last.inst] # None
    /\ last.url = "u2"
    /\ "u2" \notin entered
    /\ lastPut["u1"].ok
    /\ last.ret = NoneTriple

\* C3: end-to-end scenario 3: with caching enabled, of two get calls for
\* the same url within the time-to-live window only the first sends a
\* request; the second returns the body the first stored (the first
\* fetched a non-empty document, no cache I/O failure in either call).
C3_SecondGetFromCache ==
    [][(/\ last.op = "get"
        /\ last.fetched = 1
        /\ last.status = "200"
        /\ Truthy(last.html)
        /\ ~last.raised
        /\ last.io = IOok
        /\ cacheDir[last.inst] # None
        /\ CallStep
        /\ last'.op = "get"
        /\ last'.url = last.url
        /\ last'.io = IOok
        /\ cacheDir[last'.inst] # None
        /\ now - last.at <= CacheTime)
       => (last'.fetched = 0 /\ last'.ret[1] = last.html)]_vars

\* C4: end-to-end scenario 4: when get finds an entry older than the
\* time-to-live and the server answers 304, get returns the stored body,
\* the body file is not rewritten, and the access time of the entry in
\* the index becomes the current time.
C4_Revalidated ==
    [][(/\ CallStep
        /\ last'.op = "get"
        /\ last'.fetched = 1
        /\ last'.status = "304"
        /\ body[Key(last'.url)] \notin {NoFile, ""})
       => (/\ last'.ret[1] = body[Key(last'.url)]
           /\ body' = body
           /\ cache'.ent[Key(last'.url)].accessTime = now)]_vars

\* C5: fail-soft cache: whatever cache I/O fails, when the server answers
\* the request of get (200 with a text, or 304 to a conditional request),
\* get raises nothing and returns a document.
C5_FailSoft ==
    (/\ last.op = "get"
     /\ last.fetched = 1
     /\ last.status \in {"200", "304"}
     /\ (last.status = "200" => last.html # None))
    => (~last.raised /\ last.ret[1] # None)

\* C6: unreadable body: when the index holds an entry for the url that is
\* not stale but reading the body file fails, _getCached returns
\* (None, None, None), not the access time or etag of the entry.
C6_UnreadableBody ==
    [][(/\ CallStep
        /\ last'.op = "getCached"
        /\ cacheDir[last'.inst] # None
        /\ cache'.ent[Key(last'.url)] # NoEntry
        /\ ~Expired(now, cache'.ent[Key(last'.url)].accessTime)
        /\ (~last'.io.readBody \/ body[Key(last'.url)] = NoFile))
       => last'.ret = NoneTriple]_vars

\* C6 witness: a fresh entry whose body file could not be read
C6_Witness ==
    /\ last.op = "getCached"
    /\ ~last.ignore
    /\ ~last.io.readBody
    /\ cache.ent[Key(last.url)] # NoEntry
    /\ ~Expired(now, cache.ent[Key(last.url)].accessTime)
    /\ last.ret = NoneTriple

\* C7: every read and write of the shared in-memory index is made while
\* _cache_lock is held: no source line touches the shared mapping
\* outside the lock.
C7_AllUnderLock == unlockedR = {} /\ unlockedW = {}

\* C8: _putCached is a no-op when no cache directory is configured or the
\* body is empty or None: the in-memory index, the index file and all
\* body files stay as they are.
C8_PutNoOp ==
    [][(/\ CallStep
        /\ last'.op = "putCached"
        /\ (cacheDir[last'.inst] = None \/ last'.html \in {None, ""}))
       => (/\ cache' = cache
           /\ own' = own
           /\ aliased' = aliased
           /\ diskOK' = diskOK
           /\ diskIndex' = diskIndex
           /\ body' = body)]_vars

\* C8 witness: a put of an empty body by an instance with a cache
\* directory, for a url that has an entry
C8_Witness ==
    /\ last.op = "putCached"
    /\ last.html = ""
    /\ cacheDir[last.inst] # None
    /\ lastPut[last.url].ok

\* C9: when writing the body file fails in _putCached the put is given
\* up: the in-memory index and the index file are what they were before
\* the call.
C9_WriteFailureAborts ==
    [][(/\ CallStep
        /\ last'.op = "putCached"
        /\ last'.io.writeBody # "ok")
       => (/\ cache' = cache
           /\ own' = own
           /\ aliased' = aliased
           /\ diskOK' = diskOK
           /\ diskIndex' = diskIndex)]_vars

\* C9 witness: the body write failed for a url that has an entry
C9_Witness ==
    /\ last.op = "putCached"
    /\ last.io.writeBody = "truncated"
    /\ lastPut[last.url] = NoPut
    /\ cache.ent[Key(last.url)] # NoEntry
    /\ body[Key(last.url)] = ""

\* C10: shrink is idempotent: once shrinkDict has been applied to a result
\* of _parseScheme, applying shrinkDict again changes nothing,
\* shrinkDict(shrinkDict(x)) = shrinkDict(x).
C10_ShrinkIdempotent == passes >= 1 => shrinkDict(shrunk) = shrunk

\* the elements of a list, the entries of a dict
Parts(x) ==
    IF x.kind = "list" THEN {x.val[n] : n \in 1..Len(x.val)}
    ELSE IF x.kind = "dict" THEN {x.val[k] : k \in DOMAIN x.val}
    ELSE {}

\* shrunk form: no list of one element, no dict whose only key is
\* "value", no dict entry with an empty value, at any depth
RECURSIVE NormalForm(_)
NormalForm(x) ==
    /\ x.kind = "list" => Len(x.val) # 1
    /\ x.kind = "dict" => (DOMAIN x.val # {"value"}
                           /\ \A k \in DOMAIN x.val : Bool(x.val[k]))
    /\ \A y \in Parts(x) : NormalForm(y)

\* C11: shrink normal form: after one shrinkDict pass over a result of
\* _parseScheme the result holds no single-element list, no dict whose
\* only key is "value" and no dict entry whose value is empty.
C11_ShrinkNormalForm == passes = 1 => NormalForm(shrunk)

\* C13: for every node, _getTagMatch(node, None) and _getTagMatch(node, [])
\* return the list [node], and they make no search in the document.
C13_BaseCase ==
    (result.op = "_getTagMatch" /\ (~job.tree.given \/ job.tree.levels = << >>))
        => /\ ~result.ret.raised
           /\ ~result.ret.none
           /\ result.ret.nodes = <<job.ele>>
           /\ result.ret.finds = 0

C13_Witness ==
    /\ result.op = "_getTagMatch"
    /\ job.tree = Tree(<< >>)
    /\ job.ele = 4
    /\ result.ret.nodes = <<4>>

\* the candidates a level keeps under a tag: those find_all gives, cut down
\* by the selector; none when the selector fails
Candidates(n, t) ==
    IF find_all(n, CompileLevel(t)) = << >> THEN << >>
    ELSE LET sel == Select(find_all(n, CompileLevel(t)), t.sel)
         IN  IF sel.raised THEN << >> ELSE sel.val

\* the tags at the ends of the paths that follow the levels from a set of
\* tags
RECURSIVE Ends(_, _)
Ends(S, levels) ==
    IF levels = << >> THEN S
    ELSE Ends(UNION {Range(Candidates(n, Head(levels))) : n \in S},
              Tail(levels))

\* C14: _getTagMatch returns None or a list that is not empty, never an
\* empty list; it returns None when no path through the levels reaches a
\* tag, so when a level has no candidates or every candidate's own match
\* is None.
C14_NeverEmpty ==
    result.op = "_getTagMatch"
        => /\ ~result.ret.raised
           /\ result.ret.none \/ Len(result.ret.nodes) > 0
           /\ Ends({job.ele}, job.tree.levels) = {} => result.ret.none
           /\ (/\ job.tree.levels # << >>
               /\ \A c \in Range(Candidates(job.ele, Head(job.tree.levels))) :
                    getTagMatch(c, Tree(Tail(job.tree.levels))).none)
                => result.ret.none

C14_Witness ==
    /\ result.op = "_getTagMatch"
    /\ Len(job.tree.levels) = 2
    /\ Len(Candidates(job.ele, job.tree.levels[1])) > 1
    /\ result.ret.none

\* C16: for a tree [L] + rest, _getTagMatch(node, [L] + rest) is the
\* concatenation of _getTagMatch(c, rest) over the candidates c that L keeps
\* under node, in document order (the tags are numbered in document order),
\* leaving out the candidates whose match is None; it is None when that
\* concatenation is empty.
C16_PathQuery ==
    (result.op = "_getTagMatch" /\ job.tree.levels # << >>)
        => LET cs == Candidates(job.ele, Head(job.tree.levels))
               rest == Tree(Tail(job.tree.levels))
               cat == Flat([i \in 1..Len(cs) |->
                              IF getTagMatch(cs[i], rest).none THEN << >>
                              ELSE getTagMatch(cs[i], rest).nodes])
           IN  /\ ~result.ret.raised
               /\ \A i, j \in 1..Len(cs) : i < j => cs[i] < cs[j]
               /\ IF cat = << >> THEN result.ret.none
                  ELSE ~result.ret.none /\ result.ret.nodes = cat

C16_Witness ==
    /\ result.op = "_getTagMatch"
    /\ job.ele = Root
    /\ job.tree = Tree(<<Level("div", TRUE, NoAttrs, NoSel),
                         Level("p", FALSE, NoAttrs, SliceFrom(1))>>)
    /\ result.ret.nodes = <<7, 8>>

\* C17: a value scheme of type "attribute" without an "attribute" entry
\* makes _parseValue raise.
C17_MissingAttributeRaises ==
    (/\ result.op = "_parseValue"
     /\ job.valueScheme.type = "attribute"
     /\ job.valueScheme.attribute = None
     /\ job.eles # << >>)
        => result.ret.raised

\* the tags of a list that carry the attribute
HavingAttr(eles, a) == SelectSeq(eles, LAMBDA n : a \in DOMAIN Doc[n].attrs)

\* C18: for a value scheme of type "attribute", whatever strip and reg are
\* and whatever the list of tags is, _parseValue raises nothing and returns
\* what it returns for the tags that carry the attribute: a tag without the
\* attribute adds no string and leaves the strings of the others alone.
C18_AbsentAttribute ==
    (/\ result.op = "_parseValue"
     /\ job.valueScheme.type = "attribute"
     /\ job.valueScheme.attribute # None)
        => /\ ~result.ret.raised
           /\ result.ret = parseValue(HavingAttr(job.eles,
                                                 job.valueScheme.attribute),
                                      job.valueScheme)

\* the values with one space between them
RECURSIVE SpaceJoined(_)
SpaceJoined(l) ==
    IF l = << >> THEN << >>
    ELSE IF Len(l) = 1 THEN l[1]
    ELSE l[1] \o <<" ">> \o SpaceJoined(Tail(l))

\* C19: for a value scheme of type "attribute" and a tag whose attribute is
\* multi-valued, _parseValue works on one string for the tag, the values
\* joined with one space: without reg it returns that string (stripped when
\* strip is set), with reg the matches of the pattern in it, so the join
\* comes before strip and before the pattern.
C19_MultiValuedJoined ==
    (/\ result.op = "_parseValue"
     /\ Len(job.eles) = 1
     /\ job.valueScheme.type = "attribute"
     /\ job.valueScheme.attribute \in DOMAIN Doc[job.eles[1]].attrs
     /\ Doc[job.eles[1]].attrs[job.valueScheme.attribute].list)
        => LET vs == job.valueScheme
               joined == SpaceJoined(Doc[job.eles[1]].attrs[vs.attribute].val)
               stripped == IF vs.strip THEN strip(joined) ELSE joined
           IN  /\ ~result.ret.raised
               /\ result.ret.val = IF vs.reg.form = None THEN <<stripped>>
                                   ELSE findall(vs.reg.pat, stripped)

C19_Witness ==
    /\ result.op = "_parseValue"
    /\ job.eles = <<2>>
    /\ job.valueScheme = ValueScheme("attribute", "class", TRUE,
                                     RegDict(<<"a", " ", "b">>))
    /\ result.ret.val = << <<"a", " ", "b">> >>

\* post of one extracted string: stripped if strip is set, then replaced by
\* the matches of the pattern if reg is set
PostOne(vs, a) ==
    LET stripped == IF vs.strip THEN strip(a) ELSE a
    IN  IF vs.reg.form = None THEN <<stripped>>
        ELSE findall(vs.reg.pat, stripped)

\* post over the strings extracted from one tag
PostNode(vs, n) ==
    Flat([i \in 1..Len(Appended(n, vs)) |-> PostOne(vs, Appended(n, vs)[i])])

\* C20: _parseValue raises nothing and its output is the concatenation,
\* over the tags of eles in their order, of post(extract(tag)): the
\* extracted string is stripped first (strip set) and then replaced by the
\* matches of the pattern (reg set); without reg there is one string for
\* every tag a string was extracted from.
C20_PipelineOrder ==
    result.op = "_parseValue"
        => /\ ~result.ret.raised
           /\ result.ret.val =
                Flat([i \in 1..Len(job.eles) |->
                        PostNode(job.valueScheme, job.eles[i])])

\* C12: the scheme {"title": {"tree": [{"name": "h1"}], "value": {"type":
\* "text", "strip": true}}} on the document, whose one h1 has the text
\* "  Hello  ", gives {"title": [{"value": ["Hello"]}]}, and shrinkDict
\* makes {"title": "Hello"} of it; an entity with a tree and a "value"
\* entry gives one {"value": [..]} object per tag its tree matches.
Scenario1 ==
    "title" :> Entity(TRUE, Tree(<<Level("h1", TRUE, NoAttrs, NoSel)>>),
                      FALSE, EmptyScheme, NoValueEntry,
                      TRUE, ValueScheme("text", None, TRUE, NoReg))

C12_Scenario1 ==
    /\ (result.op = "_parseScheme" /\ job.ele = Root /\ job.scheme = Scenario1)
         => /\ ~result.ret.raised
            /\ parsed = Dict("title" :> List(<<Dict("value" :>
                                  List(<<Str("Hello")>>))>>))
            /\ passes >= 1 => shrunk = Dict("title" :> Str("Hello"))
    /\ (/\ result.op = "_parseScheme"
        /\ DOMAIN job.scheme = {"title"}
        /\ job.scheme["title"].hasValue)
         => /\ ~result.ret.raised
            /\ Len(parsed.val["title"].val)
                 = Len(Matches(job.ele, job.scheme["title"]))
            /\ \A i \in 1..Len(parsed.val["title"].val) :
                   /\ parsed.val["title"].val[i].kind = "dict"
                   /\ DOMAIN parsed.val["title"].val[i].val = {"value"}

\* the selector of the first level of the tree of a key fails on the
\* candidates find_all gives
SelectorFails(ele, entity) ==
    /\ entity.hasTree
    /\ entity.tree.levels # << >>
    /\ find_all(ele, Head(entity.tree.levels)) # << >>
    /\ Select(find_all(ele, Head(entity.tree.levels)),
              Head(entity.tree.levels).sel).raised

\* the selector of the first level of the tree of a key is "0", and there
\* are candidates
SelectorFirst(ele, entity) ==
    /\ entity.hasTree
    /\ entity.tree.levels # << >>
    /\ find_all(ele, Head(entity.tree.levels)) # << >>
    /\ Head(entity.tree.levels).sel = Index(0)

\* what C15 says of the key k of the scheme of the call
SelectorRule(k) ==
    LET entity == job.scheme[k]
        L == Head(entity.tree.levels)
    IN  /\ SelectorFirst(job.ele, entity)
            => Candidates(job.ele, L) = <<find_all(job.ele, L)[1]>>
        /\ SelectorFails(job.ele, entity)
            => /\ getTagMatch(job.ele, entity.tree).none
               /\ ~getTagMatch(job.ele, entity.tree).raised
               /\ ~result.ret.raised
               /\ parsed.val[k] = List(<< >>)
               /\ passes >= 1 => (shrunk.kind = "dict"
                                  /\ k \notin DOMAIN shrunk.val)

OwnStrings(n, entity) == Range(Strs(parseValue(<<n>>, entity).val))

\* the strings of a list of the result
StringsIn(l) == {x \in Range(l.val) : x.kind = "str"}

\* the strings under "value" in the objects of a list of the result
ValuesIn(l) ==
    UNION {StringsIn(x.val["value"]) :
             x \in {y \in Range(l.val) : y.kind = "dict"
                                         /\ "value" \in DOMAIN y.val}}

\* C21: every string a key "value" puts into the result is extracted from
\* the tag its scheme is applied to, whether the key has no tree, a tree
\* that matches nothing or a tree that matches tags: for a scheme
\* {"value": ..} the strings come from the tag of the call, for children
\* {"value": ..} from the matched tag the children are applied to.
C21_ValueFromOwner ==
    (result.op = "_parseScheme" /\ ~result.ret.raised)
        => /\ "value" \in DOMAIN job.scheme
                => /\ StringsIn(parsed.val["value"])
                        \subseteq OwnStrings(job.ele, job.scheme["value"])
                   /\ job.scheme["value"].children = ItemScheme
                        => ValuesIn(parsed.val["value"])
                             \subseteq OwnStrings(job.ele, job.scheme["value"])
           /\ \A k \in DOMAIN job.scheme :
                (/\ job.scheme[k].hasChildren
                 /\ "value" \in DOMAIN job.scheme[k].children)
                  => \A i \in 1..Len(Matches(job.ele, job.scheme[k])) :
                       StringsIn(parsed.val[k].val[i].val["value"])
                         \subseteq OwnStrings(Matches(job.ele, job.scheme[k])[i],
                                              job.scheme[k].children["value"])

C21_Witness ==
    /\ result.op = "_parseScheme"
    /\ job.ele = 2
    /\ job.scheme = "value" :> Entity(TRUE,
                        Tree(<<Level("p", TRUE, NoAttrs, NoSel)>>), TRUE,
                        ItemScheme, ValueScheme("attribute", "class", FALSE, NoReg),
                        FALSE, NoValueEntry)
    /\ parsed = Dict("value" :> List(<<Dict(("value" :> List(<<Str("a b")>>))
                                           @@ ("item" :> List(<< >>)))>>))

C23_FailedRequest ==
    [][(/\ CallStep
        /\ last'.op = "get"
        /\ last'.raised
        /\ last'.status \in {"fail", "404"})
       => /\ last'.fetched = 1
          /\ \A k \in Keys :
               cache.ent[k] # NoEntry => cache'.ent[k] = cache.ent[k]
          /\ diskOK' = diskOK
          /\ diskIndex' = diskIndex
          /\ body' = body]_vars

\* ------------------------------------------------------------------------
\* loadable.py: dates and times in JSON files
\* ------------------------------------------------------------------------
MaxKeys == 2

KeyNames == <<"a", "b", "c", "d">>

\* texts are sequences of characters
Digits == <<"0", "1", "2", "3", "4", "5", "6", "7", "8", "9">>

Digit(n) == Digits[n + 1]

Pad2(n) == <<Digit(n \div 10), Digit(n % 10)>>

Pad4(n) == <<Digit(n \div 1000), Digit((n \div 100) % 10)>> \o Pad2(n % 100)

DigitVal(c) == CHOOSE n \in 0..9 : Digit(n) = c

RECURSIVE Number(_)
Number(s) ==
    IF s = << >> THEN 0
    ELSE 10 * Number(SubSeq(s, 1, Len(s) - 1)) + DigitVal(s[Len(s)])

\* datetime.date, datetime.time, datetime.datetime and datetime.timedelta
DateOf(y, m, d) == [year |-> y, month |-> m, day |-> d]

TimeOf(h, m, s) == [hour |-> h, minute |-> m, second |-> s]

Midnight == TimeOf(0, 0, 0)

PyDatetime(d, t, tz) == [type |-> "datetime", date |-> d, time |-> t, tzinfo |-> tz]

PyDate(d) == [type |-> "date", date |-> d]

PyTime(t) == [type |-> "time", time |-> t]

PyTimedelta(d, s, us) ==
    [type |-> "timedelta", days |-> d, seconds |-> s, microseconds |-> us]

DateIso(d) == Pad4(d.year) \o <<"-">> \o Pad2(d.month) \o <<"-">> \o Pad2(d.day)

TimeIso(t) == Pad2(t.hour) \o <<":">> \o Pad2(t.minute) \o <<":">> \o Pad2(t.second)

isoformat(obj) ==
    CASE obj.type = "datetime" -> DateIso(obj.date) \o <<"T">> \o TimeIso(obj.time)
      [] obj.type = "date" -> DateIso(obj.date)
      [] obj.type = "time" -> TimeIso(obj.time)

\* JSON values in a file
JStr(s) == [json |-> "string", s |-> s]

JNum(n) == [json |-> "number", n |-> n]

JObj(members) == [json |-> "object", members |-> members]

TimedeltaName == <<"t", "i", "m", "e", "d", "e", "l", "t", "a">>

\* obj.astimezone(UTC).replace(tzinfo=None); the zones here are None and UTC
AsNaiveUTC(obj) == [obj EXCEPT !.tzinfo = None]

\* DateTimeEncoder.default
default(obj) ==
    CASE obj.type = "datetime" ->
           JObj("__datetime__" :> JStr(isoformat(AsNaiveUTC(obj)) \o <<"Z">>))
      [] obj.type = "date" -> JObj("__date__" :> JStr(isoformat(obj)))
      [] obj.type = "timedelta" ->
           JObj([k \in {"__type__", "days", "seconds", "microseconds"} |->
                   IF k = "__type__" THEN JStr(TimedeltaName) ELSE JNum(obj[k])])
      [] obj.type = "time" -> JObj("__time__" :> JStr(isoformat(obj)))

\* json.dump(val, f, cls=DateTimeEncoder) of a mapping
dump(val) == JObj([k \in DOMAIN val |-> default(val[k])])

\* dateutil.parser.parse on the texts the encoder writes: a trailing Z is the
\* UTC zone, T separates the date from the time, a missing date is today, a
\* missing time is midnight
HasZ(s) == s # << >> /\ s[Len(s)] = "Z"

NoZ(s) == IF HasZ(s) THEN SubSeq(s, 1, Len(s) - 1) ELSE s

HasChar(s, c) == \E i \in 1..Len(s) : s[i] = c

DatePart(s) == IF HasChar(s, "-") THEN SubSeq(s, 1, 10) ELSE << >>

TimePart(s) ==
    IF ~HasChar(s, ":") THEN << >>
    ELSE IF HasChar(s, "T") THEN SubSeq(s, 12, Len(s))
    ELSE s

ParseDate(p, today) ==
    IF p = << >> THEN today
    ELSE DateOf(Number(SubSeq(p, 1, 4)), Number(SubSeq(p, 6, 7)),
                Number(SubSeq(p, 9, 10)))

ParseTime(p) ==
    IF p = << >> THEN Midnight
    ELSE TimeOf(Number(SubSeq(p, 1, 2)), Number(SubSeq(p, 4, 5)),
                Number(SubSeq(p, 7, 8)))

parse(s, today) ==
    PyDatetime(ParseDate(DatePart(NoZ(s)), today), ParseTime(TimePart(NoZ(s))),
               IF HasZ(s) THEN "UTC" ELSE None)

\* DateTimeDecoder._as_datetime, _as_date and _as_time
as_datetime(dct, today) ==
    [parse(dct["__datetime__"].s, today) EXCEPT !.tzinfo = "UTC"]

as_date(dct, today) == PyDate(parse(dct["__date__"].s, today).date)

as_time(dct, today) == PyTime(parse(dct["__time__"].s, today).time)

\* datetime.timedelta(**dct) once "__type__" is popped
as_timedelta(dct) ==
    PyTimedelta(dct["days"].n, dct["seconds"].n, dct["microseconds"].n)

IsText(dct, k) == k \in DOMAIN dct /\ "json" \in DOMAIN dct[k] /\ dct[k].json = "string"

\* DateTimeDecoder.decode, the object_hook of json.load
decode(dct, today) ==
    IF IsText(dct, "__type__") /\ dct["__type__"].s = TimedeltaName
      THEN as_timedelta(dct)
    ELSE IF IsText(dct, "__datetime__") THEN as_datetime(dct, today)
    ELSE IF IsText(dct, "__date__") THEN as_date(dct, today)
    ELSE IF IsText(dct, "__time__") THEN as_time(dct, today)
    ELSE dct

\* json.load(f, object_hook=DateTimeDecoder.decode): inner objects first
load(doc, today) ==
    decode([k \in DOMAIN doc.members |-> decode(doc.members[k].members, today)],
           today)

\* a file: missing, empty, or holding a JSON document
MissingFile == [state |-> "missing"]

EmptyFile == [state |-> "empty"]

FileOf(doc) == [state |-> "written", doc |-> doc]

\* save_file(path, data): the file is opened "wb"; json.dump writes text, which
\* a binary file object takes only where text and bytes are one type
save_file(data, textIsBytes) ==
    IF textIsBytes THEN [raised |-> FALSE, file |-> FileOf(dump(data))]
    ELSE [raised |-> TRUE, file |-> EmptyFile]

\* load_file(path)
load_file(file, today) ==
    IF file.state # "written" THEN [raised |-> TRUE, ret |-> None]
    ELSE [raised |-> FALSE, ret |-> load(file.doc, today)]

\* -------- inputs --------
Dates == {DateOf(2018, 1, 27), DateOf(2024, 12, 31)}

ClockTimes == {Midnight, TimeOf(9, 38, 5)}

Datetimes(zones) == {PyDatetime(d, t, z) : d \in Dates, t \in ClockTimes, z \in zones}

Timedeltas == {PyTimedelta(0, 0, 0), PyTimedelta(0 - 1, 86399, 5)}

NaiveValues ==
    Datetimes({None}) \cup {PyDate(d) : d \in Dates}
      \cup {PyTime(t) : t \in ClockTimes} \cup Timedeltas

FileValues == NaiveValues \cup Datetimes({"UTC"})

KeySets == {{KeyNames[i] : i \in 1..n} : n \in 1..MaxKeys}

Mappings == UNION {[ks -> FileValues] : ks \in KeySets}

InitFile ==
    /\ InitIdle
    /\ job \in {[op |-> "file", data |-> m, textIsBytes |-> b, today |-> d] :
                  m \in Mappings, b \in BOOLEAN, d \in {DateOf(2026, 11, 4)}}

SaveFile ==
    /\ job.op = "file"
    /\ result = NoOut
    /\ result' = [op |-> "saved", saved |-> save_file(job.data, job.textIsBytes)]
    /\ UNCHANGED <<job, webVars, shrinkVars, runVars>>

LoadFile ==
    /\ result.op = "saved"
    /\ result' = [op |-> "loaded", saved |-> result.saved,
                  loaded |-> load_file(result.saved.file, job.today)]
    /\ UNCHANGED <<job, webVars, shrinkVars, runVars>>

NextFile ==
    \/ SaveFile
    \/ LoadFile

SpecFile == InitFile /\ [][NextFile]_vars

AllNaive(m) == \A k \in DOMAIN m : m[k] \in NaiveValues

MaxStarts == 2

MaxStops == 2

\* who calls stop: another thread, or SignalStopWrapper._signal_handler
Stoppers == {"thread", "signal"}

\* whether the thread that called start is inside the call
InStart == startPc \in {"entered", "test", "sleeping"}

\* run.stopped after a call of stop: "early" when start is entered and has
\* not yet assigned _is_running, "late" when it has
StoppedAt(pc, before) ==
    CASE pc = "idle" -> before
      [] pc = "entered" -> "early"
      [] OTHER -> "late"

InitRun ==
    /\ InitIdle
    /\ job = NoJob

\* start(blocking) is entered: super().start() is done, line 114 is next
StartCall(b) ==
    /\ ~InStart
    /\ run.starts < MaxStarts
    /\ startPc' = "entered"
    /\ blocking' = b
    /\ run' = [run EXCEPT !.starts = @ + 1, !.stopped = "no", !.slept = 0,
                          !.interrupted = FALSE]
    /\ UNCHANGED <<is_running, webVars, shrinkVars, scrapVars>>

\* self._is_running = True
StartSet ==
    /\ startPc = "entered"
    /\ is_running' = TRUE
    /\ startPc' = "test"
    /\ UNCHANGED <<blocking, run, webVars, shrinkVars, scrapVars>>

\* while blocking and self._is_running
LoopTest(b, r) == b /\ r

\* the test of the loop: sleep once more, or return
StartTest ==
    /\ startPc = "test"
    /\ IF LoopTest(blocking, is_running)
         THEN /\ startPc' = "sleeping"
              /\ run' = [run EXCEPT
                           !.slept = IF run.stopped = "late" THEN @ + 1 ELSE @]
         ELSE /\ startPc' = "returned"
              /\ run' = run
    /\ UNCHANGED <<is_running, blocking, webVars, shrinkVars, scrapVars>>

\* time.sleep(self._start_block_timeout) returns
SleepDone ==
    /\ startPc = "sleeping"
    /\ startPc' = "test"
    /\ UNCHANGED <<is_running, blocking, run, webVars, shrinkVars, scrapVars>>

\* time.sleep raises IOError "[Errno 4] ..." (interrupted call): start
\* swallows it and returns
SleepInterrupted ==
    /\ startPc = "sleeping"
    /\ startPc' = "returned"
    /\ run' = [run EXCEPT !.interrupted = TRUE]
    /\ UNCHANGED <<is_running, blocking, webVars, shrinkVars, scrapVars>>

\* time.sleep raises another IOError: start raises it again
SleepFailed ==
    /\ startPc = "sleeping"
    /\ startPc' = "raised"
    /\ UNCHANGED <<is_running, blocking, run, webVars, shrinkVars, scrapVars>>

\* stop(), called by another thread or by the signal handler
Stop(by) ==
    /\ run.stops < MaxStops
    /\ is_running' = FALSE
    /\ run' = [run EXCEPT !.stops = @ + 1,
                          !.stopped = StoppedAt(startPc, run.stopped),
                          !.by = by]
    /\ UNCHANGED <<blocking, startPc, webVars, shrinkVars, scrapVars>>

NextRun ==
    \/ \E b \in BOOLEAN : StartCall(b)
    \/ StartSet
    \/ StartTest
    \/ SleepDone
    \/ SleepInterrupted
    \/ SleepFailed
    \/ \E by \in Stoppers : Stop(by)

SpecRun == InitRun /\ [][NextRun]_vars

\* the thread inside start keeps running, and a sleep ends
SpecRunFair ==
    /\ SpecRun
    /\ WF_vars(StartSet)
    /\ WF_vars(StartTest)
    /\ WF_vars(SleepDone \/ SleepInterrupted \/ SleepFailed)

\* C25: start(blocking=True) sets is_running and does not return while it
\* stays true: it returns only after stop() has set it to false, and after a
\* stop during the blocking it begins no further sleep; start(blocking=False)
\* returns with is_running true, and after stop() is_running is false
C25_BlockingStart ==
    /\ (startPc \in {"test", "sleeping"} /\ run.stopped # "late") => is_running
    /\ (blocking /\ startPc = "returned") => (run.stopped = "late" /\ ~is_running)
    /\ run.slept = 0
    /\ (~blocking /\ startPc = "returned" /\ run.stopped # "late") => is_running
    /\ (startPc # "entered" /\ run.stopped = "late") => ~is_running

\* C30: a stop called at any point after start(blocking=True) is entered,
\* also before start has set is_running, makes start end eventually
C30_StopNeverLost ==
    (blocking /\ InStart /\ run.stopped # "no") ~> ~InStart

\* ------------------------------------------------------------------------
\* WebScraper.scrap
\* ------------------------------------------------------------------------
MaxScraps == 2

\* a scheme argument or setting: None, or a dict
NoArg == [none |-> TRUE, val |-> EmptyScheme]

SchemeArg(sc) == [none |-> FALSE, val |-> sc]

\* truth value of a scheme: None and {} are falsy
HasScheme(a) == ~a.none /\ DOMAIN a.val # {}

\* lines 722-723: if not url: url = self._url
UrlOf(urlArg, setting) == IF Truthy(urlArg) THEN urlArg ELSE setting

\* lines 724-725: if not scheme: scheme = self._scheme
SchemeOf(schemeArg, setting) == IF HasScheme(schemeArg) THEN schemeArg ELSE setting

\* variant: only the url is looked at
MissingUrlOnly(url, scheme) == ~Truthy(url)

\* lines 728-731: the two tests that raise WEBParameterException
MissingParameter(url, scheme) == ~HasScheme(scheme) \/ ~Truthy(url)

\* BeautifulSoup(htmlSite, self._html_parser): the pages of the model are
\* texts of the document
Soup(htmlSite) == Document

PageScheme ==
    "value" :> Entity(TRUE, Tree(<<Level("p", TRUE, NoAttrs, NoSel)>>),
                      FALSE, EmptyScheme,
                      ValueScheme("text", None, TRUE, NoReg),
                      FALSE, NoValueEntry)

UrlArgs == {None, "u2"}

SchemeArgs == {NoArg, SchemeArg(EmptyScheme), SchemeArg(PageScheme)}

\* the pages a server sends
Pages(url) == {r \in Responses(url) : r.text # ""}

\* settings 'url' and 'scheme' (lines 85-86): the first scraper has both,
\* the second has an empty url and no scheme
InitScrap ==
    /\ InitWeb
    /\ InitStartStopable
    /\ parsed = NoResult
    /\ shrunk = NoResult
    /\ passes = 0
    /\ result = NoOut
    /\ job = [op |-> "scrap",
              url |-> [i \in Inst |-> IF i = "A" THEN "u1" ELSE ""],
              scheme |-> [i \in Inst |-> IF i = "A" THEN SchemeArg(PageScheme)
                                        ELSE NoArg]]

\* scrap raises WEBParameterException (lines 728-731)
ScrapRaise(i, urlArg, schemeArg) ==
    /\ calls' = calls + 1
    /\ result' = [op |-> "scrap", inst |-> i, urlArg |-> urlArg,
                  schemeArg |-> schemeArg,
                  raised |-> "WEBParameterException", gets |-> 0,
                  requests |-> 0, ret |-> SchemeRaised]
    /\ UNCHANGED <<now, cacheDir, cache, aliased, own, diskOK, diskIndex, body,
                   unlockedR, unlockedW, lastPut, entered, last>>
    /\ UNCHANGED <<job, shrinkVars, runVars>>

\* scrap calls get and parses the page (lines 732-735)
ScrapPage(i, url, scheme, urlArg, schemeArg, resp, io) ==
    /\ GetCall(i, url, resp, io)
    /\ result' = [op |-> "scrap", inst |-> i, urlArg |-> urlArg,
                  schemeArg |-> schemeArg,
                  raised |-> IF last'.raised THEN "WEBConnectException" ELSE None,
                  gets |-> 1, requests |-> last'.fetched,
                  ret |-> IF last'.raised THEN SchemeRaised
                          ELSE parseScheme(Soup(last'.ret[1]), scheme.val)]
    /\ job' = [job EXCEPT !.scheme[i] =
                 IF HasScheme(schemeArg) \/ last'.raised THEN @
                 ELSE SchemeArg(SchemeAfter(Soup(last'.ret[1]), @.val))]
    /\ UNCHANGED <<shrinkVars, runVars>>

\* a call of scrap(url, scheme)
Scrap(i, urlArg, schemeArg) ==
    /\ calls < MaxScraps
    /\ IF MissingParameter(UrlOf(urlArg, job.url[i]),
                           SchemeOf(schemeArg, job.scheme[i]))
         THEN ScrapRaise(i, urlArg, schemeArg)
         ELSE \E resp \in Pages(UrlOf(urlArg, job.url[i])) :
                \E io \in IOfor(GetOp(Mem, i, UrlOf(urlArg, job.url[i]), resp,
                                      IOok, now).m.did) :
                   ScrapPage(i, UrlOf(urlArg, job.url[i]),
                             SchemeOf(schemeArg, job.scheme[i]),
                             urlArg, schemeArg, resp, io)

NextScrap ==
    \/ \E i \in Inst, urlArg \in UrlArgs, schemeArg \in SchemeArgs :
          Scrap(i, urlArg, schemeArg)

SpecScrap == InitScrap /\ [][NextScrap]_vars

\* the call of scrap made by the step
ScrapStep == calls' = calls + 1 /\ result'.op = "scrap"

\* whether the call the result is of had a scheme, a url
GivenScheme ==
    HasScheme(result.schemeArg) \/ HasScheme(job.scheme[result.inst])

GivenUrl == Truthy(result.urlArg) \/ Truthy(job.url[result.inst])

\* C26: scrap raises WEBParameterException when neither the argument nor the
\* instance provides a scheme, or neither provides a url, and does so before
\* any cache lookup or HTTP request: get is not called, no request is made,
\* and the cache is as it was
C26_ParameterCheckFirst ==
    [][(ScrapStep /\ ~(GivenScheme' /\ GivenUrl'))
         => /\ result'.raised = "WEBParameterException"
            /\ result'.gets = 0
            /\ result'.requests = 0
            /\ UNCHANGED <<cache, aliased, own, diskOK, diskIndex, body,
                           unlockedR, unlockedW, lastPut, entered, last>>]_vars

\* a call without a scheme was made on a scraper whose last call of get, to
\* the url the call names, filled the cache
C26_Witness ==
    /\ result.op = "scrap"
    /\ result.raised = "WEBParameterException"
    /\ result.urlArg = "u2"
    /\ ~GivenScheme
    /\ last.op = "get"

\* the entry of the index that a put recorded in the history is for
EntryOf(put) == [accessTime |-> put.time, ETag |-> put.etag]

\* C27: with two scrapers in one process, after every call the shared index
\* holds for every url the metadata of its most recent put, and a lookup
\* never replaces an entry of the shared index by an older one
C27_SharedIndexConsistent ==
    [][CallStep
         => /\ \A u \in URLs :
                 lastPut'[u].ok => cache'.ent[Key(u)] = EntryOf(lastPut'[u])
            /\ last'.op = "getCached"
                 => \A k \in Keys :
                       cache.ent[k] # NoEntry
                         => cache'.ent[k].accessTime >= cache.ent[k].accessTime]_vars

\* a call of get that changed the entry of its url in the index: it stored a
\* fetched document, or it was answered 304
ChangedEntry(call) ==
    /\ call.op = "get"
    /\ ~call.raised
    /\ call.fetched = 1
    /\ cacheDir[call.inst] # None
    /\ call.status = "304" \/ (call.status = "200" /\ Truthy(call.html))

\* C28: after every completed get that changed the entry of a url in the
\* index in memory and met no I/O failure, cache_index.tmp holds the same
\* access time and etag for the url as the index in memory
C28_DiskIndexMirror ==
    [][(CallStep /\ ChangedEntry(last') /\ last'.io = IOok)
         => /\ diskOK'
            /\ diskIndex'.ent[Key(last'.url)] = cache'.ent[Key(last'.url)]]_vars

\* no tag is twice in the list
NoDuplicates(l) == \A i, j \in 1..Len(l) : l[i] = l[j] => i = j

\* C29: for every element and every tree, the list that _getTagMatch
\* returns holds each tag of the document at most once
C29_NoDuplicateMatches ==
    (result.op = "_getTagMatch" /\ ~result.ret.raised /\ ~result.ret.none)
      => NoDuplicates(result.ret.nodes)
====
